---- MODULE Spec2Model ----
(***************************************************************************)
(* Model of the luddite service (service.go): construction, the handler    *)
(* list and the middleware chain built from it, resource-to-route          *)
(* registration, Run, and the dispatch of a request by the router handler. *)
(***************************************************************************)
EXTENDS Integers, Sequences, FiniteSets, TLC

\* ------------------------------------------------------------------ bounds
MaxHandlers == 6
MaxResources == 2
MaxServeResources == 1
MaxCalls == 2

\* ------------------------------------------------------------------ inputs
Versions == 0..2
UserHandlers == {"h1", "h2"}
Resources == {"r1", "r2"}
BasePaths == {<<"a">>, <<"a", "b">>}
Methods == {"GET", "PUT", "POST", "DELETE"}
Operations == {"List", "Get", "Create", "Update", "Delete", "Action"}
ReqPaths ==
    {<< >>, <<"x">>, <<"a">>, <<"a", "b">>, <<"a", "x">>, <<"a", "b", "x">>, <<"a", "x", "y">>,
     <<"schema">>, <<"schema", "v1">>}

\* The operations a resource implements (r2 is a read-only resource).
Implements(r) == IF r = "r1" THEN Operations ELSE {"List", "Get"}

ErrNil == "nil"
NotCalled == "not called"
ErrMin == "service's minimum API version must be greater than zero"
ErrMax == "service's maximum API version must be greater than zero"

NoConfig == [Min |-> 0, Max |-> 0, Metrics |-> FALSE, Schema |-> FALSE, RootRedirect |-> FALSE]
Configs ==
    {c \in [Min : Versions, Max : Versions, Metrics : BOOLEAN, Schema : BOOLEAN, RootRedirect : BOOLEAN] :
        c.RootRedirect => c.Schema}

SchemaUriPath == <<"schema">>

VARIABLES
    pc,          \* position of the program: "start", "setup", "serving", "returned", "panicked"
    config,      \* the ServiceConfig handed to the last NewService
    err,         \* the error the last NewService returned
    handlers,    \* service.handlers
    middleware,  \* service.middleware
    router,      \* the bindings registered with service.router
    stats,       \* service.stats: "nil", "open" or "closed"
    served,      \* the chain handed to http.ListenAndServe
    added,       \* the arguments of the caller's AddHandler calls, in call order
    nres,        \* number of Add...Resource calls so far
    resp,        \* the outcome of the last request served
    closes,      \* number of Close calls on service.stats
    req,         \* the request in flight in the middleware chain, handler by handler
    ddb,         \* the DynamoTable: its metrics and the result of its last operation
    dparams      \* NewDynamoParams: the input map and what it returned

vars ==
    <<pc, config, err, handlers, middleware, router, stats, served, added, nres, resp,
      closes, req, ddb, dparams>>

\* ------------------------------------------------------- middleware chain
Void == << >>

RECURSIVE buildMiddleware(_)
buildMiddleware(hs) ==
    IF Len(hs) = 0 THEN Void
    ELSE <<Head(hs), buildMiddleware(Tail(hs))>>

RECURSIVE ChainHandlers(_)
ChainHandlers(m) ==
    IF m = Void THEN << >> ELSE <<m[1]>> \o ChainHandlers(m[2])

\* ------------------------------------------------------------ route table
Params == {"{id}", "{action}"}
VersionSeg == "v{version}"
VersionSegs == {"v1"}

SegMatch(t, s) == t = s \/ t \in Params \/ (t = VersionSeg /\ s \in VersionSegs)

Match(template, p) ==
    /\ Len(template) = Len(p)
    /\ \A i \in 1..Len(p) : SegMatch(template[i], p[i])

IsWild(t) == t \in Params \/ t = VersionSeg

\* Two registrations the router cannot tell apart: same method, same shape.
Ambiguous(b, c) ==
    /\ b.method = c.method
    /\ Len(b.template) = Len(c.template)
    /\ \A i \in 1..Len(b.template) :
          \/ b.template[i] = c.template[i]
          \/ (IsWild(b.template[i]) /\ IsWild(c.template[i]))

NoRoutes == [routes |-> {}, panicked |-> FALSE]

Handle_NoRefusal(rt, b) ==
    IF rt.panicked THEN rt ELSE [rt EXCEPT !.routes = @ \cup {b}]

Handle(rt, b) ==
    IF rt.panicked THEN rt
    ELSE IF \E c \in rt.routes : Ambiguous(b, c) THEN [rt EXCEPT !.panicked = TRUE]
    ELSE [rt EXCEPT !.routes = @ \cup {b}]

Binding(m, t, r, o, withId) ==
    [method |-> m, template |-> t, res |-> r, op |-> o, idPresent |-> withId]

ItemPath(basePath, withId) == IF withId THEN Append(basePath, "{id}") ELSE basePath

addListRoute(rt, basePath, r) ==
    Handle(rt, Binding("GET", basePath, r, "List", FALSE))

addGetRoute(rt, basePath, withId, r) ==
    Handle(rt, Binding("GET", ItemPath(basePath, withId), r, "Get", withId))

addCreateRoute(rt, basePath, r) ==
    Handle(rt, Binding("POST", basePath, r, "Create", FALSE))

addUpdateRoute(rt, basePath, withId, r) ==
    Handle(rt, Binding("PUT", ItemPath(basePath, withId), r, "Update", withId))

addDeleteRoute(rt, basePath, withId, r) ==
    Handle(rt, Binding("DELETE", ItemPath(basePath, withId), r, "Delete", withId))

addActionRoute(rt, basePath, withId, r) ==
    Handle(rt, Binding("POST", Append(ItemPath(basePath, withId), "{action}"), r, "Action", withId))

SingletonRoutes_GetWithId(rt, basePath, r) ==
    LET g == addGetRoute(rt, basePath, TRUE, r)
        u == addUpdateRoute(g, basePath, FALSE, r)
    IN  addActionRoute(u, basePath, FALSE, r)

SingletonRoutes_WithDelete(rt, basePath, r) ==
    LET g == addGetRoute(rt, basePath, FALSE, r)
        u == addUpdateRoute(g, basePath, FALSE, r)
        d == addDeleteRoute(u, basePath, FALSE, r)
    IN  addActionRoute(d, basePath, FALSE, r)

SingletonRoutes(rt, basePath, r) ==
    LET g == addGetRoute(rt, basePath, FALSE, r)
        u == addUpdateRoute(g, basePath, FALSE, r)
    IN  addActionRoute(u, basePath, FALSE, r)

CollectionRoutes_NoBulkDelete(rt, basePath, r) ==
    LET l  == addListRoute(rt, basePath, r)
        g  == addGetRoute(l, basePath, TRUE, r)
        c  == addCreateRoute(g, basePath, r)
        u  == addUpdateRoute(c, basePath, TRUE, r)
        di == addDeleteRoute(u, basePath, TRUE, r)
    IN  addActionRoute(di, basePath, TRUE, r)

CollectionRoutes(rt, basePath, r) ==
    LET l  == addListRoute(rt, basePath, r)
        g  == addGetRoute(l, basePath, TRUE, r)
        c  == addCreateRoute(g, basePath, r)
        u  == addUpdateRoute(c, basePath, TRUE, r)
        d  == addDeleteRoute(u, basePath, FALSE, r)
        di == addDeleteRoute(d, basePath, TRUE, r)
    IN  addActionRoute(di, basePath, TRUE, r)

addSchemaRoutes(rt, cfg) ==
    LET v == Handle(rt, Binding("GET", Append(SchemaUriPath, VersionSeg), "schema", "ServeSchema", FALSE))
        b == Handle(v, Binding("GET", SchemaUriPath, "schema", "Redirect", FALSE))
    IN  IF cfg.RootRedirect
        THEN Handle(b, Binding("GET", << >>, "schema", "Redirect", FALSE))
        ELSE b

\* ------------------------------------------------------------ construction
newContextHandler_NoMaxCheck(cfg) ==
    IF cfg.Min < 1 THEN ErrMin ELSE ErrNil

newContextHandler(cfg) ==
    IF cfg.Min < 1 THEN ErrMin
    ELSE IF cfg.Max < 1 THEN ErrMax
    ELSE ErrNil

DefaultHandlers == <<"Bottom", "Negotiator", "Context">>

NoResp ==
    [reached |-> FALSE, method |-> "none", path |-> << >>, status |-> 0, allow |-> {},
     res |-> "none", op |-> "none"]

\* ------------------------------------------------- datastore (DynamoTable)
TableRegion == "us-east-1"
TableName == "items"

OpLabels ==
    {"GetItem", "PutItem", "ConditionalPutItem", "UpdateAttributes",
     "ConditionalUpdateAttributes", "DeleteItem", "Scan", "QueryOnIndex"}
ErrorCodes == {"ThrottlingException", "ConditionalCheckFailedException"}

\* What the underlying dynamodb.Table call returns: nil, dynamodb.ErrNotFound,
\* a *dynamodb.Error with a code, or an error of another type.
ErrNotFound == "ErrNotFound"
ErrOther == "net error"
\* A *dynamodb.Error is represented by its Code.
DynErr(code) == code
IsDynErr(e) == e \in {DynErr(c) : c \in ErrorCodes}
Outcomes == {ErrNil, ErrNotFound, ErrOther} \cup {DynErr(c) : c \in ErrorCodes}

LabelKeys == {TableRegion} \X {TableName} \X (OpLabels \cup ErrorCodes)
Key(label) == <<TableRegion, TableName, label>>

NoRet == [op |-> "none", out |-> ErrNil, ok |-> FALSE, err |-> ErrNil, handled |-> 0]

FreshTable ==
    [dynamoOps         |-> [k \in LabelKeys |-> 0],
     dynamoOpLatencies |-> [k \in LabelKeys |-> 0],
     dynamoErrors      |-> [k \in LabelKeys |-> 0],
     calls             |-> 0,
     dynFailed         |-> 0,
     ret               |-> NoRet]

\* ------------------------------------------------------- NewDynamoParams
ParamKeys == {"region", "table_name", "access_key", "secret_key"}
Missing == "<missing>"
ParamValues == {Missing, "", "x", "y"}
ParamMaps == [ParamKeys -> ParamValues]

\* params[k] of a Go map: the empty string when the key is missing.
Lookup(m, k) == IF m[k] = Missing THEN "" ELSE m[k]

ErrRegion == "DynamoDB providers require a 'region' parameter"
ErrTableName == "DynamoDB providers require a 'table_name' parameter"
NilParams == [Region |-> "", TableName |-> "", AccessKey |-> "", SecretKey |-> "", nil |-> TRUE]

NoParams == [input |-> [k \in ParamKeys |-> Missing], called |-> FALSE, p |-> NilParams, err |-> ErrNil]

\* ------------------------------------------------------ request in flight
NoReq ==
    [state |-> "idle", method |-> "none", path |-> << >>, stop |-> 0, whole |-> << >>,
     rest |-> << >>, entered |-> << >>, exited |-> << >>, op |-> "none", status |-> 0]

Init ==
    /\ pc = "start"
    /\ config = NoConfig
    /\ err = NotCalled
    /\ handlers = << >>
    /\ middleware = Void
    /\ router = {}
    /\ stats = "nil"
    /\ served = Void
    /\ added = << >>
    /\ nres = 0
    /\ resp = NoResp
    /\ closes = 0
    /\ req = NoReq
    /\ ddb = FreshTable
    /\ dparams = NoParams

NewService(cfg) ==
    /\ pc = "start"
    /\ config' = cfg
    /\ err' = newContextHandler(cfg)
    /\ IF newContextHandler(cfg) # ErrNil
       THEN UNCHANGED <<pc, handlers, middleware, router, stats>>
       ELSE /\ pc' = "setup"
            /\ stats' = IF cfg.Metrics THEN "open" ELSE "nil"
            /\ handlers' = DefaultHandlers
            /\ middleware' = buildMiddleware(DefaultHandlers)
            /\ router' = IF cfg.Schema THEN addSchemaRoutes(NoRoutes, cfg).routes ELSE {}
    /\ UNCHANGED <<served, added, nres, resp>>
    /\ UNCHANGED <<closes, req, ddb, dparams>>

Alive == pc \in {"setup", "serving", "returned"}

AppendHandler_Prepend(hs, h) == <<h>> \o hs

AppendHandler(hs, h) == Append(hs, h)

serverHandler_Live(sv, mw) == mw

\* http.ListenAndServe was handed the value of s.middleware when Run called
\* it: replacing s.middleware later does not change the server's handler.
serverHandler(sv, mw) == sv

AddHandler(h) ==
    /\ Alive
    /\ Len(handlers) < MaxHandlers
    /\ handlers' = AppendHandler(handlers, h)
    /\ middleware' = buildMiddleware(AppendHandler(handlers, h))
    /\ served' = serverHandler(served, buildMiddleware(AppendHandler(handlers, h)))
    /\ added' = Append(added, h)
    /\ resp' = NoResp
    /\ UNCHANGED <<pc, config, err, router, stats, nres>>
    /\ UNCHANGED <<closes, req, ddb, dparams>>

AddSingletonResource(basePath, r) ==
    /\ Alive
    /\ LET rt == SingletonRoutes([routes |-> router, panicked |-> FALSE], basePath, r)
       IN  /\ router' = rt.routes
           /\ pc' = IF rt.panicked THEN "panicked" ELSE pc
    /\ nres' = nres + 1
    /\ resp' = NoResp
    /\ UNCHANGED <<config, err, handlers, middleware, stats, served, added>>
    /\ UNCHANGED <<closes, req, ddb, dparams>>

AddCollectionResource(basePath, r) ==
    /\ Alive
    /\ LET rt == CollectionRoutes([routes |-> router, panicked |-> FALSE], basePath, r)
       IN  /\ router' = rt.routes
           /\ pc' = IF rt.panicked THEN "panicked" ELSE pc
    /\ nres' = nres + 1
    /\ resp' = NoResp
    /\ UNCHANGED <<config, err, handlers, middleware, stats, served, added>>
    /\ UNCHANGED <<closes, req, ddb, dparams>>

\* Run up to the point where it blocks in http.ListenAndServe.
Run ==
    /\ pc \in {"setup", "returned"}
    /\ Len(handlers) < MaxHandlers
    /\ handlers' = AppendHandler(handlers, "Router")
    /\ middleware' = buildMiddleware(AppendHandler(handlers, "Router"))
    /\ served' = buildMiddleware(AppendHandler(handlers, "Router"))
    /\ pc' = "serving"
    /\ resp' = NoResp
    /\ UNCHANGED <<config, err, router, stats, added, nres>>
    /\ UNCHANGED <<closes, req, ddb, dparams>>

\* Whether Run arranged for the deferred stats.Close.
deferClose_Always(st) == TRUE

deferClose(st) == st # "nil"

\* http.ListenAndServe returns (the listener failed or was stopped); the
\* deferred stats.Close runs.
RunReturn ==
    /\ pc = "serving"
    /\ pc' = "returned"
    /\ stats' = IF deferClose(stats) THEN "closed" ELSE stats
    /\ closes' = IF deferClose(stats) THEN closes + 1 ELSE closes
    /\ resp' = NoResp
    /\ UNCHANGED <<config, err, handlers, middleware, router, served, added, nres>>
    /\ UNCHANGED <<req, ddb, dparams>>

\* ---------------------------------------------------------------- requests
\* The bindings a request resolves to: those of its method whose template
\* matches the path, a literal segment taking precedence over a parameter.
Prefer(t, u) ==
    \E i \in 1..Len(t) :
        /\ \A j \in 1..(i - 1) : t[j] = u[j]
        /\ ~IsWild(t[i])
        /\ IsWild(u[i])

Matching(routes, m, p) == {b \in routes : b.method = m /\ Match(b.template, p)}

Resolve(routes, m, p) ==
    LET ms == Matching(routes, m, p)
    IN  {b \in ms : \A c \in ms \ {b} : ~Prefer(c.template, b.template)}

PermittedMethods(routes, p) == {m \in Methods : Matching(routes, m, p) # {}}

NotFound == [NoResp EXCEPT !.status = 404]

MethodNotAllowed == [NoResp EXCEPT !.status = 405]

Invoke(b) ==
    [NoResp EXCEPT
        !.status = IF b.res = "schema" THEN (IF b.op = "Redirect" THEN 307 ELSE 200)
                   ELSE IF b.op \in Implements(b.res) THEN 200 ELSE 405,
        !.res = b.res,
        !.op = IF b.res = "schema" \/ b.op \in Implements(b.res) THEN b.op ELSE "none"]

HandleHTTP(routes, m, p) ==
    LET hit == Resolve(routes, m, p)
    IN  IF hit # {} THEN Invoke(CHOOSE b \in hit : TRUE)
        ELSE IF PermittedMethods(routes, p) # {} THEN MethodNotAllowed
        ELSE NotFound

\* The handlers a request enters: the chain in order, up to the handler
\* that does not call its continuation (position stop, 0 for none) or the
\* router handler, which never calls it.
routerHandlerCallsNext_Yes == TRUE

\* The router handler ignores the continuation it is given.
routerHandlerCallsNext == FALSE

RECURSIVE Entered(_, _)
Entered(m, stop) ==
    IF m = Void THEN << >>
    ELSE IF stop = 1 \/ (m[1] = "Router" /\ ~routerHandlerCallsNext) THEN <<m[1]>>
    ELSE <<m[1]>> \o Entered(m[2], stop - 1)

ShortCircuit(h) ==
    [NoResp EXCEPT !.status = IF h = "Negotiator" THEN 406 ELSE IF h = "Context" THEN 400 ELSE 403]

\* The requests served: any method and path when no handler short-circuits,
\* and one request for each position at which a handler does.
Requests ==
    [method : Methods, path : ReqPaths, stop : {0}]
        \cup [method : {"GET"}, path : {<<"a">>}, stop : 2..MaxHandlers]

ServeHTTP(rq) ==
    /\ pc = "serving"
    /\ rq.stop < Len(Entered(served, 0))
    /\ LET e == Entered(served, rq.stop)
           h == e[Len(e)]
           d == HandleHTTP(router, rq.method, rq.path)
       IN  resp' = IF h = "Router"
                   THEN [d EXCEPT !.reached = TRUE, !.method = rq.method, !.path = rq.path]
                   ELSE ShortCircuit(h)
    /\ UNCHANGED <<pc, config, err, handlers, middleware, router, stats, served, added, nres>>
    /\ UNCHANGED <<closes, req, ddb, dparams>>

\* ------------------------------------------- a request, handler by handler
ChainRequests ==
    [method : {"GET", "DELETE"}, path : {<<"a">>}, stop : 0..MaxHandlers]

\* The server hands a request to the chain it was given.
Accept(rq) ==
    /\ pc = "serving"
    /\ req.state \in {"idle", "done"}
    /\ rq.stop # 1
    /\ rq.stop <= Len(ChainHandlers(served))
    /\ req' = [NoReq EXCEPT !.state = "down", !.method = rq.method, !.path = rq.path,
                            !.stop = rq.stop, !.whole = served, !.rest = served]
    /\ UNCHANGED <<pc, config, err, handlers, middleware, router, stats, served, added, nres, resp>>
    /\ UNCHANGED <<closes, ddb, dparams>>

\* The next handler of the chain is called; it calls its continuation or not.
Enter ==
    /\ req.state = "down"
    /\ LET h == req.rest[1]
           callsNext == IF h = "Router" THEN routerHandlerCallsNext
                        ELSE Len(req.entered) + 1 # req.stop
           d == HandleHTTP(router, req.method, req.path)
       IN  req' = [req EXCEPT
                !.entered = Append(@, h),
                !.rest = IF callsNext THEN req.rest[2] ELSE Void,
                !.state = IF callsNext /\ req.rest[2] # Void THEN "down" ELSE "up",
                !.op = IF h = "Router" THEN d.op ELSE @,
                !.status = IF h = "Router" THEN d.status
                           ELSE IF ~callsNext THEN ShortCircuit(h).status ELSE @]
    /\ UNCHANGED <<pc, config, err, handlers, middleware, router, stats, served, added, nres, resp>>
    /\ UNCHANGED <<closes, ddb, dparams>>

\* The innermost handler still running returns to its caller.
Exit ==
    /\ req.state = "up"
    /\ Len(req.exited) < Len(req.entered)
    /\ req' = [req EXCEPT
            !.exited = Append(@, req.entered[Len(req.entered) - Len(req.exited)]),
            !.state = IF Len(req.exited) + 1 = Len(req.entered) THEN "done" ELSE "up"]
    /\ UNCHANGED <<pc, config, err, handlers, middleware, router, stats, served, added, nres, resp>>
    /\ UNCHANGED <<closes, ddb, dparams>>


Next ==
    \/ \E cfg \in Configs : NewService(cfg)
    \/ \E h \in UserHandlers : AddHandler(h)
    \/ \E p \in BasePaths, r \in Resources : nres < MaxResources /\ AddSingletonResource(p, r)
    \/ \E p \in BasePaths, r \in Resources : nres < MaxResources /\ AddCollectionResource(p, r)
    \/ Run
    \/ RunReturn

Spec == Init /\ [][Next]_vars

\* The service as constructed from a valid configuration, then set up, run
\* and serving requests.
ServeConfigs == {c \in Configs : c.Min = 1 /\ c.Max = 2 /\ c.Metrics /\ c.Schema /\ c.RootRedirect}

InitServe ==
    \E cfg \in ServeConfigs :
        /\ pc = "setup"
        /\ config = cfg
        /\ err = newContextHandler(cfg)
        /\ handlers = DefaultHandlers
        /\ middleware = buildMiddleware(DefaultHandlers)
        /\ router = addSchemaRoutes(NoRoutes, cfg).routes
        /\ stats = IF cfg.Metrics THEN "open" ELSE "nil"
        /\ served = Void
        /\ added = << >>
        /\ nres = 0
        /\ resp = NoResp
        /\ closes = 0
        /\ req = NoReq
        /\ ddb = FreshTable
        /\ dparams = NoParams

NextServe ==
    \/ \E h \in UserHandlers : AddHandler(h)
    \/ \E p \in BasePaths, r \in Resources : nres < MaxServeResources /\ AddSingletonResource(p, r)
    \/ \E p \in BasePaths, r \in Resources : nres < MaxServeResources /\ AddCollectionResource(p, r)
    \/ Run
    \/ RunReturn
    \/ \E rq \in Requests : ServeHTTP(rq)

SpecServe == InitServe /\ [][NextServe]_vars

NextChain ==
    \/ \E h \in UserHandlers : AddHandler(h)
    \/ \E p \in BasePaths, r \in Resources : nres < MaxServeResources /\ AddSingletonResource(p, r)
    \/ Run
    \/ RunReturn
    \/ \E rq \in ChainRequests : Accept(rq)
    \/ Enter
    \/ Exit

SpecChain == InitServe /\ [][NextChain]_vars

\* ----------------------------------------------- DynamoTable operations
RECURSIVE SumOver(_, _)
SumOver(f, S) ==
    IF S = {} THEN 0
    ELSE LET k == CHOOSE x \in S : TRUE IN f[k] + SumOver(f, S \ {k})

Total(counter) == SumOver(counter, DOMAIN counter)

\* A call starts: one more call, one more failed call if the underlying
\* call returns a *dynamodb.Error.
Called(t, out) ==
    [t EXCEPT !.calls = @ + 1,
              !.dynFailed = IF IsDynErr(out) THEN @ + 1 ELSE @]

\* dynamoOps.WithLabelValues(region, table, op).Inc() and
\* dynamoOpLatencies.WithLabelValues(region, table, op).Observe(latency)
Instrument(t, op) ==
    [t EXCEPT !.dynamoOps[Key(op)] = @ + 1,
              !.dynamoOpLatencies[Key(op)] = @ + 1]

Returned(t, op, out, ok, e) ==
    [t EXCEPT !.ret = [op |-> op, out |-> out, ok |-> ok, err |-> e, handled |-> 0]]

handleError(t, op, e) ==
    IF IsDynErr(e)
    THEN [t EXCEPT !.dynamoOps[Key(e)] = @ + 1, !.ret.handled = @ + 1]
    ELSE [t EXCEPT !.ret.handled = @ + 1]

GetItemResult_NotFoundIsError(t, out) ==
    IF out # ErrNil
    THEN handleError(Returned(t, "GetItem", out, FALSE, out), "GetItem", out)
    ELSE Returned(t, "GetItem", out, TRUE, ErrNil)

GetItemResult(t, out) ==
    IF out # ErrNil
    THEN IF out = ErrNotFound
         THEN Returned(t, "GetItem", out, FALSE, ErrNil)
         ELSE handleError(Returned(t, "GetItem", out, FALSE, out), "GetItem", out)
    ELSE Returned(t, "GetItem", out, TRUE, ErrNil)

GetItem(out) ==
    /\ ddb' = GetItemResult(Instrument(Called(ddb, out), "GetItem"), out)
    /\ UNCHANGED <<pc, config, err, handlers, middleware, router, stats, served, added, nres, resp>>
    /\ UNCHANGED <<closes, req, dparams>>

DeleteItemResult(t, out) ==
    IF out # ErrNil
    THEN IF out = ErrNotFound
         THEN Returned(t, "DeleteItem", out, FALSE, ErrNil)
         ELSE handleError(Returned(t, "DeleteItem", out, FALSE, out), "DeleteItem", out)
    ELSE Returned(t, "DeleteItem", out, TRUE, ErrNil)

DeleteItem(out) ==
    /\ ddb' = DeleteItemResult(Instrument(Called(ddb, out), "DeleteItem"), out)
    /\ UNCHANGED <<pc, config, err, handlers, middleware, router, stats, served, added, nres, resp>>
    /\ UNCHANGED <<closes, req, dparams>>

\* The operations without a tolerated error: the error, if any, is handled
\* and returned.
PlainResult(t, op, out) ==
    IF out # ErrNil
    THEN handleError(Returned(t, op, out, FALSE, out), op, out)
    ELSE Returned(t, op, out, TRUE, ErrNil)

PutItem(conditional, out) ==
    /\ LET op == IF conditional THEN "ConditionalPutItem" ELSE "PutItem"
       IN  ddb' = PlainResult(Instrument(Called(ddb, out), op), op, out)
    /\ UNCHANGED <<pc, config, err, handlers, middleware, router, stats, served, added, nres, resp>>
    /\ UNCHANGED <<closes, req, dparams>>

UpdateItem(conditional, out) ==
    /\ LET op == IF conditional THEN "ConditionalUpdateAttributes" ELSE "UpdateAttributes"
       IN  ddb' = PlainResult(Instrument(Called(ddb, out), op), op, out)
    /\ UNCHANGED <<pc, config, err, handlers, middleware, router, stats, served, added, nres, resp>>
    /\ UNCHANGED <<closes, req, dparams>>

Scan(out) ==
    /\ ddb' = PlainResult(Instrument(Called(ddb, out), "Scan"), "Scan", out)
    /\ UNCHANGED <<pc, config, err, handlers, middleware, router, stats, served, added, nres, resp>>
    /\ UNCHANGED <<closes, req, dparams>>

QueryOnIndex(out) ==
    /\ ddb' = PlainResult(Instrument(Called(ddb, out), "QueryOnIndex"), "QueryOnIndex", out)
    /\ UNCHANGED <<pc, config, err, handlers, middleware, router, stats, served, added, nres, resp>>
    /\ UNCHANGED <<closes, req, dparams>>

NextDynamo ==
    \/ \E out \in Outcomes : ddb.calls < MaxCalls /\ GetItem(out)
    \/ \E out \in Outcomes : ddb.calls < MaxCalls /\ DeleteItem(out)
    \/ \E cond \in BOOLEAN, out \in Outcomes : ddb.calls < MaxCalls /\ PutItem(cond, out)
    \/ \E cond \in BOOLEAN, out \in Outcomes : ddb.calls < MaxCalls /\ UpdateItem(cond, out)
    \/ \E out \in Outcomes : ddb.calls < MaxCalls /\ Scan(out)
    \/ \E out \in Outcomes : ddb.calls < MaxCalls /\ QueryOnIndex(out)

SpecDynamo == Init /\ [][NextDynamo]_vars

\* ------------------------------------------------------- NewDynamoParams
NewDynamoParams_TableFirst(m) ==
    IF Lookup(m, "table_name") = "" THEN [p |-> NilParams, err |-> ErrTableName]
    ELSE IF Lookup(m, "region") = "" THEN [p |-> NilParams, err |-> ErrRegion]
    ELSE [p |-> [Region |-> Lookup(m, "region"), TableName |-> Lookup(m, "table_name"),
                 AccessKey |-> Lookup(m, "access_key"), SecretKey |-> Lookup(m, "secret_key"),
                 nil |-> FALSE],
          err |-> ErrNil]

NewDynamoParams(m) ==
    IF Lookup(m, "region") = "" THEN [p |-> NilParams, err |-> ErrRegion]
    ELSE IF Lookup(m, "table_name") = "" THEN [p |-> NilParams, err |-> ErrTableName]
    ELSE [p |-> [Region |-> Lookup(m, "region"), TableName |-> Lookup(m, "table_name"),
                 AccessKey |-> Lookup(m, "access_key"), SecretKey |-> Lookup(m, "secret_key"),
                 nil |-> FALSE],
          err |-> ErrNil]

InitParams ==
    /\ pc = "start"
    /\ config = NoConfig
    /\ err = NotCalled
    /\ handlers = << >>
    /\ middleware = Void
    /\ router = {}
    /\ stats = "nil"
    /\ served = Void
    /\ added = << >>
    /\ nres = 0
    /\ resp = NoResp
    /\ closes = 0
    /\ req = NoReq
    /\ ddb = FreshTable
    /\ dparams \in {[NoParams EXCEPT !.input = m] : m \in ParamMaps}

CallNewDynamoParams ==
    /\ ~dparams.called
    /\ dparams' = [dparams EXCEPT !.called = TRUE,
                                  !.p = NewDynamoParams(dparams.input).p,
                                  !.err = NewDynamoParams(dparams.input).err]
    /\ UNCHANGED <<pc, config, err, handlers, middleware, router, stats, served, added, nres, resp>>
    /\ UNCHANGED <<closes, req, ddb>>

NextParams == CallNewDynamoParams

SpecParams == InitParams /\ [][NextParams]_vars

\* ------------------------------------------------------------------ claims
Ran == pc \in {"serving", "returned"}

\* C1: before Run, the handler list is Bottom, Negotiator, Context followed
\* by the handlers of the AddHandler calls in call order, and the middleware
\* chain is the one built from that list.
C1_HandlerListOrder ==
    pc = "setup" =>
        /\ handlers = <<"Bottom", "Negotiator", "Context">> \o added
        /\ ChainHandlers(middleware) = handlers

C1_Witness == pc = "setup" /\ added = <<"h2", "h1">>

\* C2: once Run has been called, a call of AddHandler, AddSingletonResource
\* or AddCollectionResource changes neither the handler list, nor the
\* middleware chain, nor the route bindings.
C2_NoChangeAfterRun ==
    [][(Ran /\ ~(pc = "returned" /\ pc' = "serving"))
          => UNCHANGED <<handlers, middleware, router>>]_vars

\* C3: after Run has been called, the router handler is the last element of
\* the handler list and occurs in it exactly once.
C3_RouterLastOnce ==
    Ran =>
        /\ handlers[Len(handlers)] = "Router"
        /\ Cardinality({i \in 1..Len(handlers) : handlers[i] = "Router"}) = 1

\* C4: a call of AddCollectionResource(basePath, r) that returns registers
\* exactly the seven collection bindings for r, whatever r implements.
CollectionBindings(p, r) ==
    { [method |-> "GET",    template |-> p,                        res |-> r, op |-> "List",   idPresent |-> FALSE],
      [method |-> "GET",    template |-> p \o <<"{id}">>,          res |-> r, op |-> "Get",    idPresent |-> TRUE],
      [method |-> "POST",   template |-> p,                        res |-> r, op |-> "Create", idPresent |-> FALSE],
      [method |-> "PUT",    template |-> p \o <<"{id}">>,          res |-> r, op |-> "Update", idPresent |-> TRUE],
      [method |-> "DELETE", template |-> p,                        res |-> r, op |-> "Delete", idPresent |-> FALSE],
      [method |-> "DELETE", template |-> p \o <<"{id}">>,          res |-> r, op |-> "Delete", idPresent |-> TRUE],
      [method |-> "POST",   template |-> p \o <<"{id}", "{action}">>, res |-> r, op |-> "Action", idPresent |-> TRUE] }

C4_CollectionBindings ==
    [][\A p \in BasePaths, r \in Resources :
          (AddCollectionResource(p, r) /\ pc' # "panicked")
              => /\ router \subseteq router'
                 /\ router' \ router = CollectionBindings(p, r)
                 /\ Cardinality(router' \ router) = 7]_vars

C4_Witness ==
    /\ pc # "panicked"
    /\ CollectionBindings(<<"a">>, "r2") \subseteq router
    /\ Implements("r2") # Operations

\* C5: a call of AddSingletonResource(basePath, r) that returns registers
\* exactly GET basePath -> Get, PUT basePath -> Update and
\* POST basePath/{action} -> Action, none of them id-addressed.
SingletonBindings(p, r) ==
    { [method |-> "GET",  template |-> p,                   res |-> r, op |-> "Get",    idPresent |-> FALSE],
      [method |-> "PUT",  template |-> p,                   res |-> r, op |-> "Update", idPresent |-> FALSE],
      [method |-> "POST", template |-> p \o <<"{action}">>, res |-> r, op |-> "Action", idPresent |-> FALSE] }

C7_InvalidVersionRefused ==
    (err # NotCalled /\ (config.Min < 1 \/ config.Max < 1)) =>
        /\ err = IF config.Min < 1 THEN ErrMin ELSE ErrMax
        /\ pc = "start"
        /\ handlers = << >>
        /\ middleware = Void
        /\ router = {}
        /\ served = Void
        /\ stats = "nil"

C7_Witness ==
    /\ config.Min >= 1
    /\ config.Max < 1
    /\ err = ErrMax
    /\ pc = "start"

\* C8: a constructed service has Min >= 1 and Max >= Min, and construction
\* fails for every configuration with Max < Min.
C8_ValidVersionRange ==
    /\ pc # "start" => (config.Min >= 1 /\ config.Max >= config.Min)
    /\ (err # NotCalled /\ config.Max < config.Min) => (err # ErrNil /\ pc = "start")

\* C9: a request that reaches the router gets 404 when its path matches no
\* binding, and 405 with the permitted methods listed when its path matches
\* bindings of other methods only; in both cases no operation is invoked.
C9_NotFoundAndNotAllowed ==
    resp.reached =>
        LET permitted == PermittedMethods(router, resp.path)
        IN  /\ permitted = {} => (resp.status = 404 /\ resp.op = "none")
            /\ (permitted # {} /\ resp.method \notin permitted)
                  => (resp.status = 405 /\ resp.allow = permitted /\ resp.op = "none")

RECURSIVE Reverse(_)
Reverse(q) == IF q = << >> THEN << >> ELSE Append(Reverse(Tail(q)), Head(q))

\* Position of the first router handler in a handler sequence (0 if none).
FirstRouter(ch) ==
    IF \E i \in 1..Len(ch) : ch[i] = "Router"
    THEN CHOOSE i \in 1..Len(ch) : ch[i] = "Router" /\ \A j \in 1..(i - 1) : ch[j] # "Router"
    ELSE 0

\* C11: a request on which no handler short-circuits has entered Bottom,
\* Negotiator, Context, the handlers of the AddHandler calls in call order,
\* then the router, each once, and has left them in the reverse order.
C11_ChainOrder ==
    (req.state = "done" /\ req.stop = 0) =>
        /\ req.entered = <<"Bottom", "Negotiator", "Context">> \o added \o <<"Router">>
        /\ req.exited = Reverse(req.entered)

\* C12: the handlers a request enters are a prefix of the chain; when the
\* handler at position i does not call its continuation no handler after i
\* is entered, so neither the router nor a resource operation runs; and no
\* handler placed after the router handler is ever entered.
C12_ShortCircuit ==
    req.state # "idle" =>
        LET ch == ChainHandlers(req.whole)
            fr == FirstRouter(ch)
        IN  /\ Len(req.entered) <= Len(ch)
            /\ req.entered = SubSeq(ch, 1, Len(req.entered))
            /\ Len(req.entered) <= fr
            /\ (req.stop > 0 /\ req.stop < fr) =>
                  /\ Len(req.entered) <= req.stop
                  /\ \A i \in 1..Len(req.entered) : req.entered[i] # "Router"
                  /\ req.op = "none"

C12_Witness ==
    /\ req.state = "done"
    /\ req.stop = 3
    /\ req.entered = <<"Bottom", "Negotiator", "Context">>
    /\ FirstRouter(ChainHandlers(req.whole)) < Len(ChainHandlers(req.whole))

\* C13: only Run gives the server a chain, the one built from the handler
\* list at that moment; AddHandler replaces the service's chain and leaves
\* the server's chain and the chain of a request in flight as they are; a
\* request is served by the chain the server holds when it is accepted.
InFlight == req.state \in {"down", "up"}

C13_ServedChainStable ==
    [][/\ (pc' = "serving" /\ pc # "serving")
            => (served' = buildMiddleware(handlers') /\ served' = middleware')
       /\ ~(pc' = "serving" /\ pc # "serving") => served' = served
       /\ InFlight => req'.whole = req.whole
       /\ (~InFlight /\ req'.state = "down") => req'.whole = served]_vars

C13_Witness ==
    /\ pc = "serving"
    /\ InFlight
    /\ Len(req.entered) >= 1
    /\ req.whole = served
    /\ middleware # served
    /\ ChainHandlers(middleware) = ChainHandlers(served) \o <<"h1">>

\* C15: the total of dynamodb_errors_total equals the number of operations
\* that failed with a *dynamodb.Error.
C15_ErrorsCounted == Total(ddb.dynamoErrors) = ddb.dynFailed

\* C16: the total of dynamodb_operations_total equals the number of calls,
\* only operation labels are counted, and each call records one latency
\* observation.
C16_OperationsCounted ==
    /\ Total(ddb.dynamoOps) = ddb.calls
    /\ Total(ddb.dynamoOpLatencies) = ddb.calls
    /\ \A c \in ErrorCodes : ddb.dynamoOps[Key(c)] = 0

\* C17: GetItem and DeleteItem return ok and no error on success, not ok
\* and no error on ErrNotFound without calling the error handler, and not
\* ok with the error, handled once, on any other error.
C17_NotFoundIsNoError ==
    ddb.ret.op \in {"GetItem", "DeleteItem"} =>
        /\ ddb.ret.out = ErrNil
              => (ddb.ret.ok /\ ddb.ret.err = ErrNil /\ ddb.ret.handled = 0)
        /\ ddb.ret.out = ErrNotFound
              => (~ddb.ret.ok /\ ddb.ret.err = ErrNil /\ ddb.ret.handled = 0)
        /\ ddb.ret.out \notin {ErrNil, ErrNotFound}
              => (~ddb.ret.ok /\ ddb.ret.err = ddb.ret.out /\ ddb.ret.handled = 1)
        /\ ~(ddb.ret.ok /\ ddb.ret.err # ErrNil)

C17_Witness ==
    /\ ddb.ret.op = "GetItem"
    /\ ddb.ret.out = ErrNotFound
    /\ ~ddb.ret.ok
    /\ ddb.ret.err = ErrNil
    /\ ddb.calls = 2

\* C18: NewDynamoParams fails exactly when region or table_name is missing
\* or empty, reporting region first, and otherwise returns the four map
\* entries, access_key and secret_key possibly empty.
C18_ParamsValidated ==
    dparams.called =>
        LET m == dparams.input
            noRegion == m["region"] \in {Missing, ""}
            noTable == m["table_name"] \in {Missing, ""}
            entry(k) == IF m[k] = Missing THEN "" ELSE m[k]
        IN  /\ (noRegion \/ noTable) <=> dparams.err # ErrNil
            /\ noRegion => (dparams.err = ErrRegion /\ dparams.p.nil)
            /\ (~noRegion /\ noTable) => (dparams.err = ErrTableName /\ dparams.p.nil)
            /\ (~noRegion /\ ~noTable) =>
                  /\ ~dparams.p.nil
                  /\ dparams.p.Region = m["region"]
                  /\ dparams.p.TableName = m["table_name"]
                  /\ dparams.p.AccessKey = entry("access_key")
                  /\ dparams.p.SecretKey = entry("secret_key")

C18_Witness ==
    /\ dparams.called
    /\ dparams.input["region"] = Missing
    /\ dparams.input["table_name"] = ""
    /\ dparams.err = ErrRegion
    /\ dparams.p.nil
====
